---- MODULE Spec2Model ----
(***************************************************************************)
(* A model of javsp/file.py: the identifier normaliser                     *)
(* (_normalize_duplicate_avid), the output-folder template matcher         *)
(* (get_existing_summary_avids) and the directory scanner with its slice   *)
(* detection (scan_movies).                                                *)
(*                                                                         *)
(* A Python str is a sequence of one-character strings; an optional str    *)
(* (str | None) is a record [some, str].  get_id, get_cid, Cfg and         *)
(* re_escape live outside file.py: their results are inputs of the         *)
(* actions.                                                                *)
(***************************************************************************)
EXTENDS Integers, Sequences, FiniteSets, TLC

(***************************************************************************)
(* Bounds of the model.                                                    *)
(***************************************************************************)
\* longest base string the normaliser is fed, before its suffixes
MaxBase == 3
\* most "-C"/"-UC" suffixes appended to a base string
MaxSuffixes == 2
\* most video files one walk of the tree delivers
MaxScanFiles == 3
\* most files grouped under the identifier whose slices are resolved
MaxGroup == 3

(***************************************************************************)
(* Python str and list primitives.                                         *)
(***************************************************************************)
None == [some |-> FALSE, str |-> <<>>]
Some(s) == [some |-> TRUE, str |-> s]

LowerCase == <<"a","b","c","d","e","f","g","h","i","j","k","l","m",
               "n","o","p","q","r","s","t","u","v","w","x","y","z">>
UpperCase == <<"A","B","C","D","E","F","G","H","I","J","K","L","M",
               "N","O","P","Q","R","S","T","U","V","W","X","Y","Z">>
Digits == <<"0","1","2","3","4","5","6","7","8","9">>

\* the position of ch in the sequence s, 0 when absent (s has no repeats)
IndexIn(ch, s) == IF \E i \in 1..Len(s) : s[i] = ch
                  THEN CHOOSE i \in 1..Len(s) : s[i] = ch
                  ELSE 0

\* ord() of the characters the slice check compares: ASCII code points
Ord(ch) == IF IndexIn(ch, Digits) > 0 THEN 47 + IndexIn(ch, Digits)
           ELSE IF IndexIn(ch, UpperCase) > 0 THEN 64 + IndexIn(ch, UpperCase)
           ELSE IF IndexIn(ch, LowerCase) > 0 THEN 96 + IndexIn(ch, LowerCase)
           ELSE IF ch = " " THEN 32
           ELSE IF ch = "-" THEN 45
           ELSE IF ch = "." THEN 46
           ELSE IF ch = "/" THEN 47
           ELSE IF ch = "[" THEN 91
           ELSE IF ch = "]" THEN 93
           ELSE IF ch = "{" THEN 123
           ELSE IF ch = "}" THEN 125
           ELSE 92

UpperChar(ch) == IF IndexIn(ch, LowerCase) > 0 THEN UpperCase[IndexIn(ch, LowerCase)] ELSE ch
LowerChar(ch) == IF IndexIn(ch, UpperCase) > 0 THEN LowerCase[IndexIn(ch, UpperCase)] ELSE ch
IsSpace(ch) == ch = " "

\* str.upper() and str.lower()
StrUpper(s) == [i \in 1..Len(s) |-> UpperChar(s[i])]
StrLower(s) == [i \in 1..Len(s) |-> LowerChar(s[i])]

\* s[a:b] with 0-based Python bounds 0 <= a, b <= len(s)
Slice(s, a, b) == IF b <= a THEN <<>> ELSE SubSeq(s, a + 1, b)

\* str.endswith and str.startswith
EndsWith(s, suffix) ==
    /\ Len(suffix) <= Len(s)
    /\ SubSeq(s, Len(s) - Len(suffix) + 1, Len(s)) = suffix
StartsWith(s, prefix) ==
    /\ Len(prefix) <= Len(s)
    /\ SubSeq(s, 1, Len(prefix)) = prefix

\* str.lstrip(), str.rstrip() and str.strip() of whitespace
RECURSIVE LStrip(_)
LStrip(s) == IF s # <<>> /\ IsSpace(s[1]) THEN LStrip(Tail(s)) ELSE s
RECURSIVE RStrip(_)
RStrip(s) == IF s # <<>> /\ IsSpace(s[Len(s)]) THEN RStrip(SubSeq(s, 1, Len(s) - 1)) ELSE s
Strip(s) == RStrip(LStrip(s))

\* all sequences over the set S of length at most n
RECURSIVE SeqsUpTo(_, _)
SeqsUpTo(S, n) ==
    IF n = 0 THEN {<<>>}
    ELSE LET shorter == SeqsUpTo(S, n - 1)
         IN  shorter \cup {Append(s, x) : s \in {t \in shorter : Len(t) = n - 1}, x \in S}

\* ''.join(parts)
RECURSIVE Join(_)
Join(parts) == IF parts = <<>> THEN <<>> ELSE Head(parts) \o Join(Tail(parts))

(***************************************************************************)
(* _normalize_duplicate_avid                                               *)
(***************************************************************************)
\* _DUPLICATE_SUFFIXES = ('-UC', '-C')
_DUPLICATE_SUFFIXES == << <<"-","U","C">>, <<"-","C">> >>

\* the for loop of one pass: the first suffix, in tuple order, that avid ends with (0: none)
FirstSuffix(avid) ==
    IF \E k \in 1..Len(_DUPLICATE_SUFFIXES) : EndsWith(avid, _DUPLICATE_SUFFIXES[k])
    THEN CHOOSE k \in 1..Len(_DUPLICATE_SUFFIXES) :
            /\ EndsWith(avid, _DUPLICATE_SUFFIXES[k])
            /\ \A j \in 1..(k - 1) : ~EndsWith(avid, _DUPLICATE_SUFFIXES[j])
    ELSE 0

\* a single pass of the loop, then stop: what the normaliser would do without `while True`
StripSuffixesOnce(avid) ==
    IF FirstSuffix(avid) = 0 THEN avid
    ELSE Slice(avid, 0, Len(avid) - Len(_DUPLICATE_SUFFIXES[FirstSuffix(avid)]))

\* the `while True` loop: remove the first matching suffix until a pass removes none
RECURSIVE StripSuffixes(_)
StripSuffixes(avid) ==
    IF FirstSuffix(avid) = 0 THEN avid
    ELSE StripSuffixes(Slice(avid, 0, Len(avid) - Len(_DUPLICATE_SUFFIXES[FirstSuffix(avid)])))

_normalize_duplicate_avid(v) ==
    IF ~v.some \/ v.str = <<>> THEN None
    ELSE Some(StripSuffixes(StrUpper(Strip(v.str))))

VARIABLES value, base, suffixes, first_result, second_result, npc

nvars == <<value, base, suffixes, first_result, second_result, npc>>

\* characters of the identifiers the normaliser is fed
AvidChars == {"a", "c", "C", "U", "-", " "}
SuffixSet == {_DUPLICATE_SUFFIXES[k] : k \in 1..Len(_DUPLICATE_SUFFIXES)}

\* the normaliser idle: no call made
NormIdle ==
    /\ value = None /\ base = <<>> /\ suffixes = <<>>
    /\ first_result = None /\ second_result = None /\ npc = "idle"

\* the argument is None, or a base string followed by suffixes in any order
NormInit ==
    /\ base \in SeqsUpTo(AvidChars, MaxBase)
    /\ suffixes \in SeqsUpTo(SuffixSet, MaxSuffixes)
    /\ value \in {None, Some(base \o Join(suffixes))}
    /\ (value = None => base = <<>> /\ suffixes = <<>>)
    /\ first_result = None /\ second_result = None /\ npc = "start"

\* first_result = _normalize_duplicate_avid(value)
Normalize ==
    /\ npc = "start"
    /\ first_result' = _normalize_duplicate_avid(value)
    /\ npc' = "once"
    /\ UNCHANGED <<value, base, suffixes, second_result>>

\* second_result = _normalize_duplicate_avid(first_result)
Renormalize ==
    /\ npc = "once"
    /\ second_result' = _normalize_duplicate_avid(first_result)
    /\ npc' = "twice"
    /\ UNCHANGED <<value, base, suffixes, first_result>>

NormNext == Normalize \/ Renormalize


(***************************************************************************)
(* Claims about the normaliser.                                            *)
(***************************************************************************)
\* C1: the normaliser is idempotent: normalising a normalised identifier
\* returns it unchanged, for every identifier string.
C1_Idempotent == npc = "twice" => second_result = first_result

\* the base string of claim C2: no outer whitespace, a non-empty upper-cased
\* form that ends in neither "-C" nor "-UC"
CleanBase(b) ==
    /\ b # <<>>
    /\ Strip(b) = b
    /\ \A k \in 1..Len(_DUPLICATE_SUFFIXES) : ~EndsWith(StrUpper(b), _DUPLICATE_SUFFIXES[k])

\* C2: a clean base string followed by any sequence of "-C"/"-UC" suffixes
\* normalises to the upper-cased base string.
C2_SuffixesStripped ==
    (npc # "start" /\ value.some /\ CleanBase(base))
        => first_result = Some(StrUpper(base))

\* C2 reached: a lower-case base followed by both suffixes comes out upper-cased and bare
C2_Witness ==
    /\ npc = "once"
    /\ base = <<"a", "-", "a">>
    /\ suffixes = << <<"-","C">>, <<"-","U","C">> >>
    /\ first_result = Some(<<"A", "-", "A">>)

(***************************************************************************)
(* _split_output_pattern and _compile_segment_regex                        *)
(***************************************************************************)
\* str.replace(old, new) for one-character old and new
ReplaceChar(s, old, new) == [i \in 1..Len(s) |-> IF s[i] = old THEN new ELSE s[i]]

\* str.find(ch): the lowest 0-based index of ch in s, -1 when absent
Find(s, ch) ==
    IF \E i \in 1..Len(s) : s[i] = ch
    THEN (CHOOSE i \in 1..Len(s) : s[i] = ch /\ \A j \in 1..(i - 1) : s[j] # ch) - 1
    ELSE -1

\* str.rfind(ch, start, end): the highest 0-based index of ch in s[start:end], -1 when absent
RFind(s, ch, start, end) ==
    IF \E i \in (start + 1)..end : s[i] = ch
    THEN (CHOOSE i \in (start + 1)..end : s[i] = ch /\ \A j \in (i + 1)..end : s[j] # ch) - 1
    ELSE -1

\* str.rstrip('/')
RECURSIVE RStripSep(_)
RStripSep(s) == IF s # <<>> /\ s[Len(s)] = "/" THEN RStripSep(SubSeq(s, 1, Len(s) - 1)) ELSE s

\* [seg for seg in s.split('/') if seg]
RECURSIVE SplitSep(_)
SplitSep(s) ==
    IF s = <<>> THEN <<>>
    ELSE LET cut == Find(s, "/")
         IN  IF cut = -1 THEN <<s>>
             ELSE IF cut = 0 THEN SplitSep(Tail(s))
             ELSE <<Slice(s, 0, cut)>> \o SplitSep(Slice(s, cut + 1, Len(s)))

\* `sub in s` for strings
Contains(s, sub) == \E i \in 0..(Len(s) - Len(sub)) : SubSeq(s, i + 1, i + Len(sub)) = sub

_split_output_pattern(pat) ==
    LET normalized == Strip(ReplaceChar(pat, "\\", "/"))
        first_placeholder == Find(normalized, "{")
        last_sep == RFind(normalized, "/", 0, first_placeholder)
        base_tail ==
            IF first_placeholder = -1 THEN <<normalized, <<>>>>
            ELSE IF last_sep = -1 THEN <<<<>>, normalized>>
            ELSE <<Slice(normalized, 0, last_sep), Slice(normalized, last_sep + 1, Len(normalized))>>
    IN  [base |-> RStripSep(base_tail[1]), segments |-> SplitSep(base_tail[2])]

\* _PLACEHOLDER_PATTERN = \{([^}]+)\}: the leftmost match in segment at or after the
\* 0-based position from, as [found, start, end] (end exclusive)
NextPlaceholder(segment, from) ==
    LET starts == {i \in (from + 1)..Len(segment) :
                      /\ segment[i] = "{"
                      /\ i + 1 <= Len(segment) /\ segment[i + 1] # "}"
                      /\ \E j \in (i + 2)..Len(segment) : segment[j] = "}"}
    IN  IF starts = {} THEN [found |-> FALSE, start |-> 0, end |-> 0]
        ELSE LET i == CHOOSE x \in starts : \A y \in starts : x <= y
                 j == CHOOSE x \in (i + 2)..Len(segment) :
                          segment[x] = "}" /\ \A y \in (i + 2)..(x - 1) : segment[y] # "}"
             IN  [found |-> TRUE, start |-> i - 1, end |-> j]

\* the parts list built by the finditer loop, from position last on
RECURSIVE SegmentParts(_, _)
SegmentParts(segment, last) ==
    LET m == NextPlaceholder(segment, last)
    IN  IF ~m.found THEN <<[kind |-> "lit", text |-> Slice(segment, last, Len(segment))]>>
        ELSE LET name == Strip(Slice(segment, m.start + 1, m.end - 1))
             IN  << [kind |-> "lit", text |-> Slice(segment, last, m.start)],
                    [kind |-> IF name = <<"n","u","m">> THEN "num" ELSE "any", text |-> <<>>] >>
                 \o SegmentParts(segment, m.end)

\* re.compile raises re.error when the group name num is defined twice in one expression
CompileFails(parts) == Cardinality({i \in 1..Len(parts) : parts[i].kind = "num"}) > 1

_compile_segment_regex(segment) == SegmentParts(segment, 0)

\* regex.match(name) for ^parts$: literals match themselves, a placeholder matches
\* [^/]+ greedily, with backtracking; [ok, num] carries the text the group num captured
RECURSIVE MatchParts(_, _, _, _)
RECURSIVE MatchWild(_, _, _, _, _)
MatchParts(parts, k, name, pos) ==
    IF k > Len(parts) THEN [ok |-> pos = Len(name), num |-> None]
    ELSE IF parts[k].kind = "lit"
         THEN IF StartsWith(Slice(name, pos, Len(name)), parts[k].text)
              THEN MatchParts(parts, k + 1, name, pos + Len(parts[k].text))
              ELSE [ok |-> FALSE, num |-> None]
         ELSE MatchWild(parts, k, name, pos, Len(name) - pos)
MatchWild(parts, k, name, pos, width) ==
    IF width < 1 THEN [ok |-> FALSE, num |-> None]
    ELSE LET rest == MatchParts(parts, k + 1, name, pos + width)
         IN  IF rest.ok /\ "/" \notin {name[i] : i \in (pos + 1)..(pos + width)}
             THEN IF parts[k].kind = "num"
                  THEN [ok |-> TRUE, num |-> Some(Slice(name, pos, pos + width))]
                  ELSE rest
             ELSE MatchWild(parts, k, name, pos, width - 1)

RegexMatch(parts, name) == MatchParts(parts, 1, name, 0)

(***************************************************************************)
(* get_existing_summary_avids                                              *)
(***************************************************************************)
VARIABLES pattern, fs, candidates, depth, existing, spc

svars == <<pattern, fs, candidates, depth, existing, spc>>

\* the directory tree below the working directory: path -> "dir" | "file" | "locked"
\* (a directory whose listing raises OSError); a path is a sequence of names
IsDir(tree, path) == path = <<>> \/ (path \in DOMAIN tree /\ tree[path] \in {"dir", "locked"})
ListDir(tree, path) ==
    {q \in DOMAIN tree : Len(q) = Len(path) + 1 /\ SubSeq(q, 1, Len(path)) = path}

Media == <<"m","e","d","i","a">>
VideoMp4 == <<"v","i","d","e","o",".","m","p","4">>
NumPlaceholder == <<"{","n","u","m","}">>
ABC123 == <<"A","B","C","-","1","2","3">>
ABC123C == ABC123 \o <<"-","C">>
Xyz9uc == <<"x","y","z","-","9","-","u","c">>

\* media/{num}/video.mp4
TemplateVideo == Media \o <<"/">> \o NumPlaceholder \o <<"/">> \o VideoMp4
\* the output-folder templates of the configuration
Templates ==
    { TemplateVideo,
      Media \o <<"/">> \o NumPlaceholder,
      NumPlaceholder,
      Media \o <<"/", "{","y","e","a","r","}", "/">> \o NumPlaceholder,
      <<" ">> \o Media \o <<"\\", "[">> \o NumPlaceholder \o <<"]", "/">>,
      Media \o <<"/">> \o VideoMp4,
      Media \o <<"/">> \o NumPlaceholder \o <<"-">> \o NumPlaceholder }

TitleNames == {ABC123, ABC123C, Xyz9uc, <<"[">> \o ABC123C \o <<"]">>}
\* what a title folder of media/ can be
TitleKinds == {"absent", "file", "empty", "locked", "video file", "video dir"}

\* the tree in which media/ holds the title folders as laid out by layout
TreeOf(layout) ==
    LET titles == {t \in DOMAIN layout : layout[t] # "absent"}
        paths == {<<Media>>} \cup {<<Media, t>> : t \in titles}
                 \cup {<<Media, t, VideoMp4>> : t \in {x \in titles : layout[x] \in {"video file", "video dir"}}}
    IN  [p \in paths |->
            IF Len(p) = 1 THEN "dir"
            ELSE IF Len(p) = 2
                 THEN (IF layout[p[2]] = "file" THEN "file"
                       ELSE IF layout[p[2]] = "locked" THEN "locked" ELSE "dir")
                 ELSE (IF layout[p[2]] = "video dir" THEN "dir" ELSE "file")]

\* media/ missing: nothing below the working directory
EmptyTree == [p \in {} |-> "dir"]

Trees == {TreeOf(layout) : layout \in [TitleNames -> TitleKinds]} \cup {EmptyTree}

SummaryIdle ==
    /\ pattern = <<>> /\ fs = EmptyTree /\ candidates = {} /\ depth = 0 /\ existing = {}
    /\ spc = "idle"

SummaryInit ==
    /\ pattern \in Templates
    /\ fs \in Trees
    /\ candidates = {} /\ depth = 0 /\ existing = {}
    /\ spc = "start"

\* base_dir as a path: os.path.normpath of base_literal or '.'
BaseDir(pat) == SplitSep(_split_output_pattern(pat).base)
\* compiled_segments
CompiledSegments(pat) ==
    LET segments == _split_output_pattern(pat).segments
    IN  [i \in 1..Len(segments) |-> _compile_segment_regex(segments[i])]

\* lines 88-100: the early returns, the compilation of the segments, the first candidate
SummaryStart ==
    /\ spc = "start"
    /\ IF \/ ~Contains(pattern, NumPlaceholder)
          \/ _split_output_pattern(pattern).segments = <<>>
          \/ ~IsDir(fs, BaseDir(pattern))
       THEN spc' = "done" /\ UNCHANGED <<candidates, depth>>
       ELSE IF \E i \in 1..Len(CompiledSegments(pattern)) : CompileFails(CompiledSegments(pattern)[i])
            THEN spc' = "raised" /\ UNCHANGED <<candidates, depth>>
            ELSE /\ candidates' = {[path |-> BaseDir(pattern), num |-> None]}
                 /\ depth' = 1
                 /\ spc' = "expand"
    /\ UNCHANGED <<pattern, fs, existing>>

\* num_value = match.groupdict().get('num'); a truthy value replaces the carried one
Captured(carried, match) == IF match.num.some /\ match.num.str # <<>> THEN match.num ELSE carried

\* next_candidates without the os.path.isdir test of the entry: files match too
NextCandidatesAnyEntry(tree, regex, current) ==
    LET kept == { pr \in current \X DOMAIN tree :
                    /\ IsDir(tree, pr[1].path)
                    /\ (pr[1].path = <<>> \/ tree[pr[1].path] # "locked")
                    /\ pr[2] \in ListDir(tree, pr[1].path)
                    /\ RegexMatch(regex, pr[2][Len(pr[2])]).ok }
    IN  { [path |-> pr[2],
           num |-> IF RegexMatch(regex, pr[2][Len(pr[2])]).num.some
                   THEN RegexMatch(regex, pr[2][Len(pr[2])]).num ELSE pr[1].num] : pr \in kept }

\* next_candidates: the matching sub-directories of the current candidates that are
\* directories and can be listed (a list in the code; only its members reach the result)
NextCandidates(tree, regex, current) ==
    LET kept == { pr \in current \X DOMAIN tree :
                    /\ IsDir(tree, pr[1].path)
                    /\ (pr[1].path = <<>> \/ tree[pr[1].path] # "locked")
                    /\ pr[2] \in ListDir(tree, pr[1].path)
                    /\ IsDir(tree, pr[2])
                    /\ RegexMatch(regex, pr[2][Len(pr[2])]).ok }
    IN  { [path |-> pr[2], num |-> Captured(pr[1].num, RegexMatch(regex, pr[2][Len(pr[2])]))] : pr \in kept }

\* lines 101-124: one iteration of `for regex in compiled_segments`
SummaryExpand ==
    /\ spc = "expand"
    /\ LET next_candidates == NextCandidates(fs, CompiledSegments(pattern)[depth], candidates)
       IN  /\ candidates' = next_candidates
           /\ IF next_candidates = {} \/ depth = Len(CompiledSegments(pattern))
              THEN spc' = "collect" /\ UNCHANGED depth
              ELSE depth' = depth + 1 /\ UNCHANGED spc
    /\ UNCHANGED <<pattern, fs, existing>>

\* lines 125-130: normalise what was captured
SummaryCollect ==
    /\ spc = "collect"
    /\ existing' = { _normalize_duplicate_avid(c.num).str :
                       c \in {x \in candidates :
                                 /\ _normalize_duplicate_avid(x.num).some
                                 /\ _normalize_duplicate_avid(x.num).str # <<>>} }
    /\ spc' = "done"
    /\ UNCHANGED <<pattern, fs, candidates, depth>>

SummaryNext == SummaryStart \/ SummaryExpand \/ SummaryCollect



(***************************************************************************)
(* Claims about the template matcher.                                      *)
(***************************************************************************)
\* media/ holding exactly ABC-123 and ABC-123-C, each holding video.mp4 of the given kind
TwoTitles(kind) ==
    TreeOf([t \in TitleNames |-> IF t \in {ABC123, ABC123C} THEN kind ELSE "absent"])

TitlesWithVideoDir(tree) ==
    {t \in TitleNames : <<Media, t, VideoMp4>> \in DOMAIN tree /\ tree[<<Media, t, VideoMp4>>] = "dir"}

RootDir == "."
FullPath(dirpath, file) == [dir |-> dirpath, name |-> file]

\* the fullpath as a string, for sorted()
PathStr(f) == (IF f.dir = RootDir THEN <<>> ELSE <<f.dir, "/">>) \o f.name

\* a < b for two strings, as Python compares them: by code point, a prefix first
RECURSIVE StrLess(_, _)
StrLess(a, b) ==
    IF b = <<>> THEN FALSE
    ELSE IF a = <<>> THEN TRUE
    ELSE IF Ord(a[1]) # Ord(b[1]) THEN Ord(a[1]) < Ord(b[1])
    ELSE StrLess(Tail(a), Tail(b))

\* sorted(seq) for a list of strings, by insertion
RECURSIVE InsertSorted(_, _)
InsertSorted(sorted, x) ==
    IF sorted = <<>> THEN <<x>>
    ELSE IF StrLess(x, sorted[1]) THEN <<x>> \o sorted
    ELSE <<sorted[1]>> \o InsertSorted(Tail(sorted), x)
RECURSIVE SortedStrs(_)
SortedStrs(seq) ==
    IF seq = <<>> THEN <<>>
    ELSE InsertSorted(SortedStrs(SubSeq(seq, 1, Len(seq) - 1)), seq[Len(seq)])

\* sorted(chars) for a list of one-character strings
SortedChars(chars) ==
    LET strs == SortedStrs([i \in 1..Len(chars) |-> <<chars[i]>>])
    IN  [i \in 1..Len(chars) |-> strs[i][1]]

\* list.index(x): the first position of x
ListIndex(seq, x) == CHOOSE i \in 1..Len(seq) : seq[i] = x /\ \A j \in 1..(i - 1) : seq[j] # x

\* set(seq)
SetOf(seq) == {seq[i] : i \in 1..Len(seq)}

\* os.path.splitext(file)[1]: from the last dot on, leading dots aside
SplitExt(file) ==
    LET lead == CHOOSE n \in 0..Len(file) :
                    /\ \A i \in 1..n : file[i] = "."
                    /\ (n < Len(file) => file[n + 1] # ".")
        dot == RFind(file, ".", lead, Len(file))
    IN  IF dot <= lead - 1 \/ dot = -1 \/ dot = 0 THEN <<>> ELSE Slice(file, dot, Len(file))

\* os.path.commonprefix(basenames)
CommonPrefix(basenames) ==
    LET shortest == CHOOSE n \in {Len(basenames[i]) : i \in 1..Len(basenames)} :
                        \A i \in 1..Len(basenames) : n <= Len(basenames[i])
        agree == {n \in 0..shortest :
                    \A i \in 1..Len(basenames) : SubSeq(basenames[i], 1, n) = SubSeq(basenames[1], 1, n)}
    IN  SubSeq(basenames[1], 1, CHOOSE n \in agree : \A k \in agree : k <= n)

\* [a-z\d] under re.I
IsAlnum(ch) == IndexIn(ch, LowerCase) > 0 \/ IndexIn(ch, UpperCase) > 0 \/ IndexIn(ch, Digits) > 0

\* the number of whitespace characters of name from the 0-based position pos on
RECURSIVE SpacesAt(_, _)
SpacesAt(name, pos) ==
    IF pos < Len(name) /\ IsSpace(name[pos + 1]) THEN 1 + SpacesAt(name, pos + 1) ELSE 0

\* re_escape(prefix): the prefix as a literal of the pattern
re_escape(prefix) == prefix

\* a match of  re_escape(prefix) + r'\s*([a-z\d])\s*'  (re.I) at position pos of name:
\* [ok, token, end]
SliceMatchAt(prefix, name, pos) ==
    LET lit == re_escape(prefix)
        afterPrefix == pos + Len(lit)
        tokenAt == afterPrefix + SpacesAt(name, afterPrefix)
    IN  IF /\ afterPrefix <= Len(name)
           /\ StrLower(Slice(name, pos, afterPrefix)) = StrLower(lit)
           /\ tokenAt < Len(name)
           /\ IsAlnum(name[tokenAt + 1])
        THEN [ok |-> TRUE, token |-> name[tokenAt + 1],
              end |-> tokenAt + 1 + SpacesAt(name, tokenAt + 1)]
        ELSE [ok |-> FALSE, token |-> "", end |-> pos]

\* pattern.sub(r'\1', name): every match, left to right, replaced by its token
RECURSIVE PatternSub(_, _, _)
PatternSub(prefix, name, pos) ==
    IF pos >= Len(name) THEN <<>>
    ELSE LET m == SliceMatchAt(prefix, name, pos)
         IN  IF m.ok THEN <<m.token>> \o PatternSub(prefix, name, m.end)
             ELSE <<name[pos + 1]>> \o PatternSub(prefix, name, pos + 1)

\* remaining = [pattern.sub(r'\1', i).lower() for i in basenames]
Remaining(files) ==
    LET basenames == [i \in 1..Len(files) |-> files[i].name]
        prefix == CommonPrefix(basenames)
    IN  [i \in 1..Len(files) |-> StrLower(PatternSub(prefix, basenames[i], 0))]
Postfixes(files) == [i \in 1..Len(files) |-> Tail(Remaining(files)[i])]
Slices(files) == [i \in 1..Len(files) |-> Remaining(files)[i][1]]

\* line 230-232: differing postfixes, or a repeated slice token
SliceInfoInvalid(files) ==
    \/ Cardinality(SetOf(Postfixes(files))) # 1
    \/ Len(Slices(files)) # Cardinality(SetOf(Slices(files)))

\* the check of the start alone, without the comparison of last with first
SliceRunInvalidStartOnly(files) == SortedChars(Slices(files))[1] \notin {"0", "1", "a"}

\* line 238-240: the numbering must start at 0/1/a and be consecutive
SliceRunInvalid(files) ==
    LET sorted_slices == SortedChars(Slices(files))
        first == sorted_slices[1]
        last == sorted_slices[Len(sorted_slices)]
    IN  \/ first \notin {"0", "1", "a"}
        \/ Ord(last) # Ord(first) + Len(sorted_slices) - 1

\* the files left in the order the walk delivered them
MappedFilesAsDelivered(files) == files

\* line 246: mapped_files = [files[slices.index(i)] for i in sorted_slices]
MappedFiles(files) ==
    LET sorted_slices == SortedChars(Slices(files))
    IN  [k \in 1..Len(sorted_slices) |-> files[ListIndex(Slices(files), sorted_slices[k])]]

\* the loop body without the test of the directories
ResolveWithoutDirs(files, compiles) ==
    IF Len(files) = 1 THEN "single"
    ELSE IF ~compiles THEN "no-pattern"
    ELSE IF SliceInfoInvalid(files) THEN "no-slices"
    ELSE IF SliceRunInvalid(files) THEN "bad-run"
    ELSE "slices"

\* what the loop body of lines 206-247 does with one group:
\* "single" | "cross-dir" | "no-pattern" | "no-slices" | "bad-run" | "slices"
Resolve(files, compiles) ==
    IF Len(files) = 1 THEN "single"
    ELSE IF Cardinality({files[i].dir : i \in 1..Len(files)}) > 1 THEN "cross-dir"
    ELSE IF ~compiles THEN "no-pattern"
    ELSE IF SliceInfoInvalid(files) THEN "no-slices"
    ELSE IF SliceRunInvalid(files) THEN "bad-run"
    ELSE "slices"

(***************************************************************************)
(* scan_movies                                                             *)
(***************************************************************************)
VARIABLES root_exists, skip_nfo_dir, dirnames, todo, unreadable, walk, dirpath,
          dic, small_videos, failed_items, has_avid, skipped_files,
          dic_copy, idx, non_slice_dup, debug_log, msg, movies, pc, raised,
          set_aside, name_ids

mvars == <<root_exists, skip_nfo_dir, dirnames, todo, unreadable, walk, dirpath,
           dic, small_videos, failed_items, has_avid, skipped_files,
           dic_copy, idx, non_slice_dup, debug_log, msg, movies, pc, raised,
           set_aside, name_ids>>

\* set_aside and name_ids are history: the paths the walk put into small_videos, and
\* what get_cid/get_id answered for the names of small_videos
NoIds == [n \in {} |-> ""]

\* Cfg().scanner.filename_extensions
filename_extensions == {<<".","m","p","4">>, <<".","m","k","v">>}

\* the sub-directories of root
SubDirs == {"A", "B"}
\* what os.listdir(root) can return for them
DirListings == {<<>>, <<"A">>, <<"A", "B">>, <<"B", "A">>}

\* the file names a walk meets
ScanNames == { <<"m",".","a",".","m","p","4">>, <<"m",".","b",".","M","P","4">>,
               <<"m",".","n","f","o">> }
\* (get_cid, get_id) of a path or of a name: "" when nothing is recognised
IdPairs == { <<"", "">>, <<"", "X">>, <<"X", "Y">> }
\* get_id/get_cid of a small file's name
NameIds == {"", "X"}

\* a dict as the list of its items, in insertion order
Keys(d) == [i \in 1..Len(d) |-> d[i].key]
HasKey(d, k) == \E i \in 1..Len(d) : d[i].key = k
Get(d, k) == d[CHOOSE i \in 1..Len(d) : d[i].key = k].val
\* d[k] = v
Put(d, k, v) ==
    IF HasKey(d, k) THEN [i \in 1..Len(d) |-> IF d[i].key = k THEN [key |-> k, val |-> v] ELSE d[i]]
    ELSE Append(d, [key |-> k, val |-> v])
\* del d[k]
Del(d, k) == SelectSeq(d, LAMBDA item : item.key # k)

\* list.remove(x) of a present element
ListRemove(seq, x) ==
    SubSeq(seq, 1, ListIndex(seq, x) - 1) \o SubSeq(seq, ListIndex(seq, x) + 1, Len(seq))

RECURSIVE Chain(_)
Chain(lists) == IF lists = <<>> THEN <<>> ELSE Head(lists) \o Chain(Tail(lists))

\* every path the walk has put somewhere
Recorded ==
    SetOf(Chain([i \in 1..Len(dic) |-> dic[i].val]))
    \cup SetOf(Chain([i \in 1..Len(small_videos) |-> small_videos[i].val]))
    \cup SetOf(failed_items)

ScanIdle ==
    /\ root_exists = FALSE /\ skip_nfo_dir = FALSE
    /\ dirnames = <<>> /\ todo = <<>> /\ unreadable = {} /\ walk = <<>> /\ dirpath = RootDir
    /\ dic = <<>> /\ small_videos = <<>> /\ failed_items = <<>> /\ has_avid = <<>>
    /\ skipped_files = <<>> /\ dic_copy = <<>> /\ idx = 0 /\ non_slice_dup = <<>>
    /\ msg = <<>> /\ movies = <<>> /\ pc = "idle" /\ raised = ""
    /\ debug_log = <<>> /\ set_aside = {} /\ name_ids = NoIds

\* a call of scan_movies(root): root may be missing, skip_nfo_dir may be set
ScanInit ==
    /\ root_exists \in BOOLEAN /\ skip_nfo_dir \in BOOLEAN
    /\ dirnames = <<>> /\ todo = <<>> /\ unreadable = {} /\ walk = <<>> /\ dirpath = RootDir
    /\ dic = <<>> /\ small_videos = <<>> /\ failed_items = <<>> /\ has_avid = <<>>
    /\ skipped_files = <<>> /\ dic_copy = <<>> /\ idx = 0 /\ non_slice_dup = <<>>
    /\ msg = <<>> /\ movies = <<>> /\ pc = "start" /\ raised = ""
    /\ debug_log = <<>> /\ set_aside = {} /\ name_ids = NoIds

\* lines 148-151: os.walk(root) starts; on a missing root it yields nothing, silently
ScanStart ==
    /\ pc = "start"
    /\ IF root_exists
       THEN \E listing \in DirListings :
                /\ dirnames' = listing /\ todo' = listing
                /\ pc' = IF listing = <<>> THEN "files" ELSE "filter"
       ELSE /\ pc' = "files"
            /\ UNCHANGED <<dirnames, todo>>
    /\ UNCHANGED <<root_exists, skip_nfo_dir, unreadable, walk, dirpath, dic, small_videos,
                   failed_items, has_avid, skipped_files, dic_copy, idx, non_slice_dup,
                   msg, movies, raised, debug_log, set_aside,
                   name_ids>>

\* lines 152-159: one iteration of `for name in dirnames.copy()`.  ignored: the ignore
\* pattern matches name; listing: what os.listdir(os.path.join(dirpath, name)) does
FilterDir ==
    /\ pc = "filter"
    /\ \E ignored \in BOOLEAN, listing \in {"plain", "nfo", "unreadable"} :
        LET name == Head(todo)
            after_ignore == IF ignored THEN ListRemove(dirnames, name) ELSE dirnames
            error == IF ~skip_nfo_dir THEN ""
                     ELSE IF listing = "unreadable" THEN "OSError"
                     ELSE IF listing = "nfo" /\ name \notin SetOf(after_ignore) THEN "ValueError"
                     ELSE ""
            after_nfo == IF skip_nfo_dir /\ listing = "nfo" /\ error = ""
                         THEN ListRemove(after_ignore, name) ELSE after_ignore
        IN  /\ dirnames' = after_nfo
            /\ unreadable' = IF listing = "unreadable" THEN unreadable \cup {name} ELSE unreadable
            /\ raised' = error
            /\ todo' = Tail(todo)
            /\ pc' = IF error # "" THEN "raised"
                     ELSE IF Tail(todo) = <<>> THEN "files" ELSE "filter"
            /\ walk' = IF error = "" /\ Tail(todo) = <<>> THEN after_nfo ELSE walk
    /\ UNCHANGED <<root_exists, skip_nfo_dir, dirpath, dic, small_videos, failed_items,
                   has_avid, skipped_files, dic_copy, idx, non_slice_dup, msg, movies, debug_log,
                   set_aside, name_ids>>

\* lines 161-183: one iteration of `for file in filenames`.  small: the file is below
\* Cfg().scanner.minimum_size; ids: (get_cid(fullpath), get_id(fullpath))
ScanFile ==
    /\ pc = "files" /\ root_exists /\ dirpath \notin unreadable
    /\ Cardinality(Recorded) < MaxScanFiles
    /\ \E file \in ScanNames, small \in BOOLEAN, ids \in IdPairs :
        LET fullpath == FullPath(dirpath, file)
            ext == StrLower(SplitExt(file))
            avid == IF ids[1] # "" THEN ids[1] ELSE ids[2]
        IN  /\ fullpath \notin Recorded
            /\ IF ext \notin filename_extensions
               THEN UNCHANGED <<dic, small_videos, failed_items, set_aside>>
               ELSE IF small
               THEN /\ small_videos' =
                        Put(small_videos, file,
                            Append(IF HasKey(small_videos, file) THEN Get(small_videos, file) ELSE <<>>,
                                   fullpath))
                    /\ set_aside' = set_aside \cup {fullpath}
                    /\ UNCHANGED <<dic, failed_items>>
               ELSE IF avid # ""
               THEN /\ dic' = Put(dic, avid,
                                  Append(IF HasKey(dic, avid) THEN Get(dic, avid) ELSE <<>>, fullpath))
                    /\ UNCHANGED <<small_videos, failed_items, set_aside>>
               ELSE /\ failed_items' = Append(failed_items, fullpath)
                    /\ UNCHANGED <<dic, small_videos, set_aside>>
    /\ UNCHANGED <<root_exists, skip_nfo_dir, dirnames, todo, unreadable, walk, dirpath,
                   has_avid, skipped_files, dic_copy, idx, non_slice_dup, msg, movies, pc, raised, debug_log,
                   name_ids>>

\* os.walk moves on to the next directory left in dirnames
NextDir ==
    /\ pc = "files" /\ walk # <<>>
    /\ dirpath' = Head(walk)
    /\ walk' = Tail(walk)
    /\ UNCHANGED <<root_exists, skip_nfo_dir, dirnames, todo, unreadable, dic, small_videos,
                   failed_items, has_avid, skipped_files, dic_copy, idx, non_slice_dup,
                   msg, movies, pc, raised, debug_log, set_aside,
                   name_ids>>

\* the merge loop with small_videos[name] read, not popped: merged files stay in the bucket
RECURSIVE MergeLoopNoPop(_, _, _)
MergeLoopNoPop(state, names, ids) ==
    IF names = <<>> THEN state
    ELSE IF HasKey(state.dic, ids[Head(names)])
         THEN MergeLoopNoPop([state EXCEPT !.dic = Put(@, ids[Head(names)],
                                                      Get(@, ids[Head(names)]) \o Get(state.small, Head(names)))],
                             Tail(names), ids)
         ELSE MergeLoopNoPop(state, Tail(names), ids)

\* lines 186-193: the loop over list(small_videos.keys()), from key k on;
\* ids[name] is what get_cid/get_id give for the name
RECURSIVE MergeLoop(_, _, _)
MergeLoop(state, names, ids) ==
    IF names = <<>> THEN state
    ELSE LET name == Head(names)
             avid == ids[name]
         IN  IF HasKey(state.dic, avid)
             THEN MergeLoop([state EXCEPT !.dic = Put(@, avid, Get(@, avid) \o Get(state.small, name)),
                                          !.small = Del(@, name)],
                            Tail(names), ids)
             ELSE IF avid # ""
             THEN MergeLoop([state EXCEPT !.has_avid = Put(@, name, avid)], Tail(names), ids)
             ELSE MergeLoop(state, Tail(names), ids)

\* line 195: {k: sorted(v) for k, v in sorted(small_videos.items())}
SortedSmall(small) ==
    LET names == SortedStrs(Keys(small))
        SortedPaths(paths) ==
            LET strs == SortedStrs([i \in 1..Len(paths) |-> PathStr(paths[i])])
            IN  [i \in 1..Len(paths) |-> CHOOSE f \in SetOf(paths) : PathStr(f) = strs[i]]
    IN  [i \in 1..Len(names) |-> [key |-> names[i], val |-> SortedPaths(Get(small, names[i]))]]

\* lines 185-203: small files rejoin the group of their identifier; the rest is skipped
MergeSmall ==
    /\ pc = "files" /\ walk = <<>>
    /\ \E ids \in [SetOf(Keys(small_videos)) -> NameIds] :
        LET merged == MergeLoop([dic |-> dic, small |-> small_videos, has_avid |-> <<>>],
                                Keys(small_videos), ids)
        IN  /\ dic' = merged.dic
            /\ has_avid' = merged.has_avid
            /\ small_videos' = SortedSmall(merged.small)
            /\ skipped_files' = Chain([i \in 1..Len(merged.small) |-> SortedSmall(merged.small)[i].val])
            /\ dic_copy' = merged.dic
            /\ name_ids' = ids
    /\ idx' = 1
    /\ pc' = "resolve"
    /\ UNCHANGED <<root_exists, skip_nfo_dir, dirnames, todo, unreadable, walk, dirpath,
                   failed_items, non_slice_dup, msg, movies, raised, debug_log,
                   set_aside>>

\* lines 206-247: one iteration of `for avid, files in dic.copy().items()`.
\* compiles: re.compile accepts the slice pattern
ResolveGroup ==
    /\ pc = "resolve" /\ idx <= Len(dic_copy)
    /\ \E compiles \in BOOLEAN :
        LET avid == dic_copy[idx].key
            files == dic_copy[idx].val
            outcome == Resolve(files, compiles)
        IN  /\ debug_log' = IF outcome \in {"no-pattern", "no-slices", "bad-run"}
                            THEN Append(debug_log, [avid |-> avid, what |-> outcome])
                            ELSE debug_log
            /\ non_slice_dup' = IF outcome \in {"cross-dir", "no-slices", "bad-run"}
                                THEN Put(non_slice_dup, avid, files) ELSE non_slice_dup
            /\ dic' = IF outcome \in {"cross-dir", "no-pattern", "no-slices", "bad-run"}
                      THEN Del(dic, avid)
                      ELSE IF outcome = "slices" THEN Put(dic, avid, MappedFiles(files))
                      ELSE dic
    /\ idx' = idx + 1
    /\ UNCHANGED <<root_exists, skip_nfo_dir, dirnames, todo, unreadable, walk, dirpath,
                   small_videos, failed_items, has_avid, skipped_files, dic_copy, msg,
                   movies, pc, raised, set_aside,
                   name_ids>>

\* lines 250-256: the one error message, an entry per identifier of non_slice_dup
Report ==
    /\ pc = "resolve" /\ idx > Len(dic_copy)
    /\ msg' = non_slice_dup
    /\ pc' = "assemble"
    /\ UNCHANGED <<root_exists, skip_nfo_dir, dirnames, todo, unreadable, walk, dirpath,
                   dic, small_videos, failed_items, has_avid, skipped_files, dic_copy, idx,
                   non_slice_dup, movies, raised, debug_log,
                   set_aside, name_ids>>

\* lines 258-271: a Movie per item of dic; the list is returned
Assemble ==
    /\ pc = "assemble"
    /\ movies' = [i \in 1..Len(dic) |-> [avid |-> dic[i].key, files |-> dic[i].val]]
    /\ pc' = "done"
    /\ UNCHANGED <<root_exists, skip_nfo_dir, dirnames, todo, unreadable, walk, dirpath,
                   dic, small_videos, failed_items, has_avid, skipped_files, dic_copy, idx,
                   non_slice_dup, msg, raised, debug_log,
                   set_aside, name_ids>>

(***************************************************************************)
(* The groups whose slices are resolved: the state at line 205, after a     *)
(* walk that found no small file.                                          *)
(***************************************************************************)
MovieName(token, ext) == <<"m", ".", token, ".">> \o ext
Mp4 == <<"m","p","4">>
\* the files of identifier X the walk may have met
SlicePaths ==
    {FullPath(RootDir, n) : n \in { MovieName("a", Mp4), MovieName("b", Mp4), MovieName("c", Mp4),
                                    <<"m", ".", " ", "B", " ", ".">> \o Mp4,
                                    MovieName("b", <<"m","k","v">>),
                                    MovieName("1", Mp4), MovieName("2", Mp4) }}
    \cup {FullPath("A", n) : n \in {MovieName("a", Mp4), MovieName("b", Mp4), MovieName("c", Mp4)}}

\* the lists of distinct paths of length 1..n
DistinctSeqs(S, n) == {q \in SeqsUpTo(S, n) : q # <<>> /\ Cardinality(SetOf(q)) = Len(q)}

OtherName(token) == <<"n", ".", token, ".">> \o Mp4
\* what the walk may have grouped under a second identifier Y
OtherGroups ==
    { <<>>,
      <<[key |-> "Y", val |-> <<FullPath(RootDir, OtherName("a"))>>]>>,
      <<[key |-> "Y", val |-> <<FullPath(RootDir, OtherName("b")), FullPath(RootDir, OtherName("a"))>>]>>,
      <<[key |-> "Y", val |-> <<FullPath(RootDir, OtherName("a")), FullPath("A", OtherName("a"))>>]>> }

SliceInit ==
    /\ root_exists = TRUE /\ skip_nfo_dir = FALSE
    /\ dirnames = <<"A">> /\ todo = <<>> /\ unreadable = {} /\ walk = <<>> /\ dirpath = "A"
    /\ \E files \in DistinctSeqs(SlicePaths, MaxGroup), other \in OtherGroups :
          dic = <<[key |-> "X", val |-> files]>> \o other
    /\ dic_copy = dic /\ idx = 1
    /\ small_videos = <<>> /\ failed_items = <<>> /\ has_avid = <<>> /\ skipped_files = <<>>
    /\ non_slice_dup = <<>> /\ debug_log = <<>> /\ msg = <<>> /\ movies = <<>>
    /\ pc = "resolve" /\ raised = "" /\ set_aside = {} /\ name_ids = NoIds

(***************************************************************************)
(* The specifications: one per function, the other functions idle.         *)
(***************************************************************************)
vars == <<nvars, svars, mvars>>

InitNorm == NormInit /\ SummaryIdle /\ ScanIdle
NextNorm ==
    \/ Normalize /\ UNCHANGED <<svars, mvars>>
    \/ Renormalize /\ UNCHANGED <<svars, mvars>>
SpecNorm == InitNorm /\ [][NextNorm]_vars

InitSummary == SummaryInit /\ NormIdle /\ ScanIdle
NextSummary ==
    \/ SummaryStart /\ UNCHANGED <<nvars, mvars>>
    \/ SummaryExpand /\ UNCHANGED <<nvars, mvars>>
    \/ SummaryCollect /\ UNCHANGED <<nvars, mvars>>
SpecSummary == InitSummary /\ [][NextSummary]_vars

InitScan == ScanInit /\ NormIdle /\ SummaryIdle
NextScan ==
    \/ ScanStart /\ UNCHANGED <<nvars, svars>>
    \/ FilterDir /\ UNCHANGED <<nvars, svars>>
    \/ ScanFile /\ UNCHANGED <<nvars, svars>>
    \/ NextDir /\ UNCHANGED <<nvars, svars>>
    \/ MergeSmall /\ UNCHANGED <<nvars, svars>>
    \/ ResolveGroup /\ UNCHANGED <<nvars, svars>>
    \/ Report /\ UNCHANGED <<nvars, svars>>
    \/ Assemble /\ UNCHANGED <<nvars, svars>>
SpecScan == InitScan /\ [][NextScan]_vars

InitSlice == SliceInit /\ NormIdle /\ SummaryIdle
NextSlice ==
    \/ ResolveGroup /\ UNCHANGED <<nvars, svars>>
    \/ Report /\ UNCHANGED <<nvars, svars>>
    \/ Assemble /\ UNCHANGED <<nvars, svars>>
SpecSlice == InitSlice /\ [][NextSlice]_vars

(***************************************************************************)
(* Claims about scan_movies.                                               *)
(***************************************************************************)
InMovies(avid) == \E i \in 1..Len(movies) : movies[i].avid = avid
MovieFiles(avid) == movies[CHOOSE i \in 1..Len(movies) : movies[i].avid = avid].files
\* the error message lists the identifier with exactly these paths
Listed(avid, files) == \E i \in 1..Len(msg) : msg[i].key = avid /\ msg[i].val = files
SameDir(files) == Cardinality({files[i].dir : i \in 1..Len(files)}) = 1
\* re.compile accepted the slice pattern of the group: no pattern error was logged
Compiled(avid) == \A i \in 1..Len(debug_log) : debug_log[i] # [avid |-> avid, what |-> "no-pattern"]
\* the groups of two or more files the loop of line 206 went through
MultiGroups == {dic_copy[i] : i \in {k \in 1..Len(dic_copy) : Len(dic_copy[k].val) >= 2}}

\* the tokens are pairwise distinct and their code points are first, first+1, ...,
\* first+n-1 for a first of '0', '1' or 'a'
ContiguousRun(tokens) ==
    LET codes == {Ord(tokens[i]) : i \in 1..Len(tokens)}
    IN  /\ Cardinality(codes) = Len(tokens)
        /\ \E first \in {"0", "1", "a"} : codes = Ord(first)..(Ord(first) + Len(tokens) - 1)

\* C4: a kept group of two or more files has pairwise distinct slice tokens forming a
\* contiguous run from '0', '1' or 'a'; a group whose extracted tokens have a gap or
\* start elsewhere is recorded as a duplicate and gives no movie.
C4_SliceRunContiguous ==
    pc = "done" =>
        \A g \in MultiGroups :
            /\ InMovies(g.key) => ContiguousRun(Slices(g.val))
            /\ (SameDir(g.val) /\ Compiled(g.key) /\ ~ContiguousRun(Slices(g.val)))
                   => (HasKey(non_slice_dup, g.key) /\ ~InMovies(g.key))

\* C4 reached: the tokens a, c of X have a gap and X is rejected, while Y with the
\* tokens b, a is kept
C4_Witness ==
    /\ pc = "done"
    /\ dic_copy[1].val = <<FullPath(RootDir, MovieName("a", Mp4)), FullPath(RootDir, MovieName("c", Mp4))>>
    /\ Compiled("X") /\ HasKey(non_slice_dup, "X") /\ ~InMovies("X")
    /\ Len(dic_copy) = 2 /\ Len(dic_copy[2].val) = 2 /\ InMovies("Y")

\* the slice token of a file of the group
TokenOf(files, f) == Slices(files)[ListIndex(files, f)]

\* the group passes the slice checks: one directory, a pattern that compiles, one
\* common remainder, a contiguous run of tokens
PassesChecks(g) ==
    /\ SameDir(g.val) /\ Compiled(g.key)
    /\ Cardinality(SetOf(Postfixes(g.val))) = 1
    /\ ContiguousRun(Slices(g.val))

\* C5: the movie of a group that passes the slice checks lists the files of the group,
\* each once, in strictly ascending slice-token order, whatever order they came in.
C5_SlicesOrdered ==
    pc = "done" =>
        \A g \in {x \in MultiGroups : PassesChecks(x)} :
            /\ InMovies(g.key)
            /\ Len(MovieFiles(g.key)) = Len(g.val)
            /\ SetOf(MovieFiles(g.key)) = SetOf(g.val)
            /\ \A i, j \in 1..Len(MovieFiles(g.key)) :
                   i < j => Ord(TokenOf(g.val, MovieFiles(g.key)[i])) < Ord(TokenOf(g.val, MovieFiles(g.key)[j]))

\* C5 reached: the walk delivered c, a, b and the movie lists a, b, c
C5_Witness ==
    /\ pc = "done"
    /\ dic_copy[1].val = <<FullPath(RootDir, MovieName("c", Mp4)), FullPath(RootDir, MovieName("a", Mp4)),
                           FullPath(RootDir, MovieName("b", Mp4))>>
    /\ InMovies("X")
    /\ MovieFiles("X") = <<FullPath(RootDir, MovieName("a", Mp4)), FullPath(RootDir, MovieName("b", Mp4)),
                           FullPath(RootDir, MovieName("c", Mp4))>>

\* C6: a group whose files lie in more than one directory gives no movie and is listed,
\* with every path, in the error message; every movie has its files in one directory.
C6_CrossDirRejected ==
    pc = "done" =>
        /\ \A g \in {x \in MultiGroups : ~SameDir(x.val)} : ~InMovies(g.key) /\ Listed(g.key, g.val)
        /\ \A i \in 1..Len(movies) : SameDir(movies[i].files)

\* C6 reached: X has part a in root and part b in A, and is listed, not returned
C6_Witness ==
    /\ pc = "done"
    /\ dic_copy[1].val = <<FullPath(RootDir, MovieName("a", Mp4)), FullPath("A", MovieName("b", Mp4))>>
    /\ ~InMovies("X")
    /\ Listed("X", dic_copy[1].val)

\* C7: a call with a root that does not exist never ends in a normal return.
C7_InvalidRootIsError == ~root_exists => pc # "done"

\* C8: under an existing root no exception ends the scan, whatever the directories
\* are (ignored, holding an .nfo file, unreadable) and whatever the configuration.
C8_ScanNeverAborts == root_exists => pc # "raised"

\* the groups after the merge that hold the path
GroupsWith(f) == {i \in 1..Len(dic) : f \in SetOf(dic[i].val)}

\* C9: after the walk, a small file whose name gives the identifier of a group is
\* appended to that group and leaves the skipped bucket; every other small file stays
\* skipped and joins no group.
C9_SmallFilesMerged ==
    (pc = "resolve" /\ idx = 1) =>
        /\ \A f \in set_aside :
              IF HasKey(dic, name_ids[f.name])
              THEN /\ GroupsWith(f) = {CHOOSE i \in 1..Len(dic) : dic[i].key = name_ids[f.name]}
                   /\ f \notin SetOf(skipped_files)
                   /\ ~HasKey(small_videos, f.name)
              ELSE /\ GroupsWith(f) = {}
                   /\ f \in SetOf(skipped_files)
        /\ \A i \in 1..Len(dic) : \A j, k \in 1..Len(dic[i].val) :
              (dic[i].val[j] \in set_aside /\ dic[i].val[k] \notin set_aside) => k < j
        /\ \A i \in 1..Len(dic) : \E k \in 1..Len(dic[i].val) : dic[i].val[k] \notin set_aside
        /\ Len(skipped_files) = Cardinality({f \in set_aside : ~HasKey(dic, name_ids[f.name])})

\* C9 reached: one small file has joined the group of X, another one stays skipped
C9_Witness ==
    /\ pc = "resolve" /\ idx = 1
    /\ \E f, g \in set_aside :
          /\ HasKey(dic, "X") /\ f \in SetOf(Get(dic, "X"))
          /\ f \notin SetOf(skipped_files)
          /\ g \in SetOf(skipped_files) /\ GroupsWith(g) = {}

\* C10: every group of two or more files that gives no movie is listed, with its
\* identifier and its paths, in the error message.
C10_NoSilentDrop ==
    pc = "done" => \A g \in MultiGroups : ~InMovies(g.key) => Listed(g.key, g.val)
====
